---- MODULE Spec2Model ----
(***************************************************************************)
(* PubGraph: the per-record extraction / parse / ingest pipeline.          *)
(*                                                                         *)
(*   runPipeline (src/api/README.md 230-283, the text of pipeline.ts)      *)
(*   Neo4jService.ingestTriples / close (src/api/src/services/             *)
(*   neo4j-service.ts 38-79)                                               *)
(*                                                                         *)
(* The program is one async function; its suspension points are the awaits *)
(* on callModel, writeTransaction, session.close, ingestTriples and        *)
(* driver.close.  One action is the code that runs between two awaits.     *)
(***************************************************************************)
EXTENDS Integers, Sequences, FiniteSets, TLC

(***************************************************************************)
(* Bounds of the model.                                                    *)
(***************************************************************************)
\* records in the CSV source
MaxRecords == 2
\* non-empty lines the model returns over a whole run
MaxLines == 3
\* store writes that fail for a reason other than the query itself
MaxFaults == 1

(***************************************************************************)
(* JavaScript values.  Every value is a record [t, v] so that values of    *)
(* different JavaScript types stay comparable: v is the character sequence *)
(* of a string, the element sequence of an array, <<>> otherwise.          *)
(***************************************************************************)
Undefined == [t |-> "undefined", v |-> <<>>]
Null == [t |-> "null", v |-> <<>>]
Str(chars) == [t |-> "string", v |-> chars]
Arr(elems) == [t |-> "array", v |-> elems]

\* a ?? b
Coalesce(a, b) == IF a.t \in {"undefined", "null"} THEN b ELSE a

\* The property names of interface Triple.
TripleKeys ==
    {"subject", "subject_type", "subject_qualifier", "object", "object_type",
     "object_qualifier", "relationship", "statement_qualifier"}

\* A decoded JSON value: an object (its properties; a property that is not
\* there reads as undefined), the literal null, or a number.
NoFields == [k \in TripleKeys |-> Undefined]
JsObject(fields) == [kind |-> "object", f |-> fields]
JsNull == [kind |-> "null", f |-> NoFields]
JsNumber == [kind |-> "number", f |-> NoFields]

\* Boolean(x) as filter(Boolean) applies it: null is falsy; an object and
\* the non-zero number are truthy.
Truthy(x) == x.kind # "null"

(***************************************************************************)
(* sanitiseRelationship: rel.replace(/[^A-Za-z0-9]/g, '_').toUpperCase()   *)
(***************************************************************************)
LowerCase == {"a", "b", "x"}
UpperCase == {"A", "B", "X"}
Digit == {"2"}
AlphaNum == LowerCase \cup UpperCase \cup Digit

ToUpperChar(c) ==
    CASE c = "a" -> "A"
      [] c = "b" -> "B"
      [] c = "x" -> "X"
      [] OTHER -> c

ReplaceNonAlnum(s) == [k \in 1..Len(s) |-> IF s[k] \in AlphaNum THEN s[k] ELSE "_"]
ToUpperCase(s) == [k \in 1..Len(s) |-> ToUpperChar(s[k])]

\* Mutant: the characters are replaced but the case is kept.
sanitiseRelationshipKeepsCase(rel) == ReplaceNonAlnum(rel)

\* Mutant: only spaces are replaced (/\s/g instead of /[^A-Za-z0-9]/g).
sanitiseRelationshipReplacesSpaces(rel) ==
    ToUpperCase([k \in 1..Len(rel) |-> IF rel[k] = " " THEN "_" ELSE rel[k]])

sanitiseRelationship(rel) == ToUpperCase(ReplaceNonAlnum(rel))

\* rel.replace is a method call: it throws a TypeError unless rel is a string.
SanitiseThrows(t) == t.f["relationship"].t # "string"

(***************************************************************************)
(* The model's reply on the wire: a text, here a sequence of tokens.  A    *)
(* member token stands for one  "key": value  pair of a JSON object.       *)
(***************************************************************************)
Tok(name) == [tok |-> name, key |-> "", val |-> Undefined]
Member(key, val) == [tok |-> "member", key |-> key, val |-> val]
NL == Tok("nl")
WS == Tok("ws")
LBrace == Tok("lbrace")
RBrace == Tok("rbrace")
NullLit == Tok("null")
NumLit == Tok("number")

\* The order in which the prompt's example lines give the members.
KeyOrder ==
    <<"subject", "subject_type", "subject_qualifier", "object", "object_type",
      "object_qualifier", "relationship", "statement_qualifier">>

\* What the model meant to say on one line: a JSON object (a member whose
\* value is Undefined is left out), an object cut off before its closing
\* brace, the literal null, a number, or nothing but white space.
ReplyLine(kind, pad, fields) == [kind |-> kind, pad |-> pad, f |-> fields]

Members(fields) ==
    LET present == SelectSeq(KeyOrder, LAMBDA k : fields[k] # Undefined)
    IN  [n \in 1..Len(present) |-> Member(present[n], fields[present[n]])]

Pad(pad, toks) == IF pad THEN <<WS>> \o toks \o <<WS>> ELSE toks

\* JSON Lines, one value per line (the wire format the prompt asks for).
RenderLine(l) ==
    CASE l.kind = "object" -> Pad(l.pad, <<LBrace>> \o Members(l.f) \o <<RBrace>>)
      [] l.kind = "truncated" -> Pad(l.pad, <<LBrace>> \o Members(l.f))
      [] l.kind = "null" -> Pad(l.pad, <<NullLit>>)
      [] l.kind = "number" -> Pad(l.pad, <<NumLit>>)
      [] OTHER -> IF l.pad THEN <<WS>> ELSE <<>>

RECURSIVE RenderReply(_)
RenderReply(reply) ==
    IF reply = <<>> THEN <<>>
    ELSE IF Len(reply) = 1 THEN RenderLine(reply[1])
    ELSE RenderLine(reply[1]) \o <<NL>> \o RenderReply(Tail(reply))

(***************************************************************************)
(* The parse step of runPipeline:                                          *)
(*   llmOutput.split('\n').map(trim).filter(Boolean)                       *)
(*            .map(JSON.parse, or warn and null).filter(Boolean)           *)
(***************************************************************************)
RECURSIVE SplitFrom(_, _, _)
SplitFrom(text, k, cur) ==
    IF k > Len(text) THEN <<cur>>
    ELSE IF text[k] = NL THEN <<cur>> \o SplitFrom(text, k + 1, <<>>)
    ELSE SplitFrom(text, k + 1, Append(cur, text[k]))

\* text.split('\n'): the empty text splits into one empty line.
Split(text) == SplitFrom(text, 1, <<>>)

RECURSIVE TrimStart(_)
TrimStart(line) ==
    IF line # <<>> /\ Head(line) = WS THEN TrimStart(Tail(line)) ELSE line

RECURSIVE TrimEnd(_)
TrimEnd(line) ==
    IF line # <<>> /\ line[Len(line)] = WS
    THEN TrimEnd(SubSeq(line, 1, Len(line) - 1))
    ELSE line

Trim(line) == TrimEnd(TrimStart(line))

\* Mutant: a member whose value is null is dropped.
FieldOfDropsNull(members, k) ==
    LET at == {n \in 1..Len(members) : members[n].key = k /\ members[n].val # Null}
    IN  IF at = {} THEN Undefined
        ELSE members[CHOOSE n \in at : \A m \in at : m <= n].val

\* The value of property k of an object with these members: the last
\* member named k wins, a property without a member is undefined.
FieldOf(members, k) ==
    LET at == {n \in 1..Len(members) : members[n].key = k}
    IN  IF at = {} THEN Undefined
        ELSE members[CHOOSE n \in at : \A m \in at : m <= n].val

\* JSON.parse(line): [ok |-> FALSE] is the SyntaxError it throws.
JSONParse(line) ==
    LET body == SelectSeq(line, LAMBDA x : x # WS)
        inner == SubSeq(body, 2, Len(body) - 1)
    IN  IF body = <<NullLit>> THEN [ok |-> TRUE, val |-> JsNull]
        ELSE IF body = <<NumLit>> THEN [ok |-> TRUE, val |-> JsNumber]
        ELSE IF /\ Len(body) >= 2
                /\ body[1] = LBrace
                /\ body[Len(body)] = RBrace
                /\ \A n \in 1..Len(inner) : inner[n].tok = "member"
             THEN [ok |-> TRUE,
                   val |-> JsObject([k \in TripleKeys |-> FieldOf(inner, k)])]
        ELSE [ok |-> FALSE, val |-> JsNull]

\* .split('\n').map((l) => l.trim()).filter(Boolean): the empty string is falsy.
NonBlankLines(text) ==
    LET lines == Split(text)
        trimmed == [n \in 1..Len(lines) |-> Trim(lines[n])]
    IN  SelectSeq(trimmed, LAMBDA l : l # <<>>)

\* Mutant: a line JSON.parse throws on yields the members read so far.
DecodeLineKeepsPartial(line) ==
    LET r == JSONParse(line)
        got == SelectSeq(line, LAMBDA x : x.tok = "member")
    IN  IF r.ok THEN r.val
        ELSE JsObject([k \in TripleKeys |-> FieldOf(got, k)])

\* The second map: the decoded value, or null where JSON.parse threw.
DecodeLine(line) ==
    LET r == JSONParse(line) IN IF r.ok THEN r.val ELSE JsNull

\* The Triple[] the record's ingestion is given.
ParseTriples(text) ==
    LET lines == NonBlankLines(text)
        decoded == [n \in 1..Len(lines) |-> DecodeLine(lines[n])]
    IN  SelectSeq(decoded, Truthy)

(***************************************************************************)
(* The console.                                                            *)
(***************************************************************************)
LogEntry(level, msg) ==
    [level |-> level, msg |-> msg, line |-> <<>>, subject |-> Undefined,
     relType |-> <<>>, object |-> Undefined, n |-> 0, of |-> 0]

\* console.warn(`Skipping malformed JSON line: ${line}`)
MalformedWarning(line) ==
    [LogEntry("warn", "Skipping malformed JSON line") EXCEPT !.line = line]

\* The warnings of the parse step, one per line JSON.parse threw on, in order.
ParseWarnings(text) ==
    LET lines == NonBlankLines(text)
        bad == SelectSeq(lines, LAMBDA l : ~JSONParse(l).ok)
    IN  [n \in 1..Len(bad) |-> MalformedWarning(bad[n])]

\* console.error(`Failed to ingest triple (${t.subject} -[${relType}]-> ${t.object}):`, err)
IngestFailure(t, relType) ==
    [LogEntry("error", "Failed to ingest triple") EXCEPT
        !.subject = t.f["subject"], !.relType = relType, !.object = t.f["object"]]

\* console.log(`Ingested ${triples.length} triples for record`)
IngestedLog(n) == [LogEntry("log", "Ingested triples for record") EXCEPT !.n = n]

\* console.warn('No triples extracted for record')
NoTriplesWarning == LogEntry("warn", "No triples extracted for record")

\* console.log(`Starting pipeline with ${records.length} records to process`)
StartingLog(n) == [LogEntry("log", "Starting pipeline") EXCEPT !.n = n]

\* console.log(`Processing record ${i + 1}/${records.length}: ...`)
ProcessingLog(i, n) ==
    [LogEntry("log", "Processing record") EXCEPT !.n = i + 1, !.of = n]

\* console.log(`Processed ${records.length} records.`)
ProcessedLog(n) == [LogEntry("log", "Processed records") EXCEPT !.n = n]

(***************************************************************************)
(* The graph store, as the Cypher statement of ingestTriples sees it:      *)
(* Entity nodes with a name and a type, and typed relationships between    *)
(* the nodes of two names, both kept in creation order.                    *)
(***************************************************************************)
Node(name, type) == [name |-> name, type |-> type]

Edge(t, relType) ==
    [subject |-> t.f["subject"], relType |-> relType, object |-> t.f["object"],
     subject_qualifier |-> Coalesce(t.f["subject_qualifier"], Null),
     object_qualifier |-> Coalesce(t.f["object_qualifier"], Null),
     statement_qualifier |-> Coalesce(t.f["statement_qualifier"], Null),
     source |-> "LLM_PubGraph"]

NodesNamed(ns, name) == {k \in 1..Len(ns) : ns[k].name = name}

EdgesKeyed(es, s, relType, o) ==
    {k \in 1..Len(es) : es[k].subject = s /\ es[k].relType = relType /\ es[k].object = o}

\* Mutant: the type is set on every MERGE, not only ON CREATE.
MergeNodeSetsTypeOnMatch(ns, name, type) ==
    IF NodesNamed(ns, name) # {}
    THEN [k \in 1..Len(ns) |-> IF ns[k].name = name THEN Node(name, type) ELSE ns[k]]
    ELSE Append(ns, Node(name, type))

\* Mutant: CREATE instead of MERGE.
MergeNodeCreates(ns, name, type) == Append(ns, Node(name, type))

\* MERGE (x:Entity {name: $name}) ON CREATE SET x.type = $type
MergeNode(ns, name, type) ==
    IF NodesNamed(ns, name) # {} THEN ns ELSE Append(ns, Node(name, type))

\* Mutant: the properties are set on every MERGE, not only ON CREATE.
MergeEdgeSetsOnMatch(es, e) ==
    LET at == EdgesKeyed(es, e.subject, e.relType, e.object)
    IN  IF at # {} THEN [k \in 1..Len(es) |-> IF k \in at THEN e ELSE es[k]]
        ELSE Append(es, e)

\* Mutant: CREATE instead of MERGE: every statement adds an edge.
MergeEdgeCreates(es, e) == Append(es, e)

\* MERGE (s)-[r:relType]->(o) ON CREATE SET r.subject_qualifier = ..., r.source = $source
MergeEdge(es, e) ==
    IF EdgesKeyed(es, e.subject, e.relType, e.object) # {} THEN es ELSE Append(es, e)

\* Mutant: the two node MERGEs do not see each other: the object is looked
\* up in the store as it was before the subject was merged.
RunStatementMergesApart(st, t, relType) ==
    LET withS == MergeNode(st.nodes, t.f["subject"], Coalesce(t.f["subject_type"], Null))
        withO == IF NodesNamed(st.nodes, t.f["object"]) # {} THEN withS
                 ELSE Append(withS, Node(t.f["object"],
                                         Coalesce(t.f["object_type"], Null)))
    IN  [nodes |-> withO, edges |-> MergeEdge(st.edges, Edge(t, relType))]

\* The three MERGE clauses of the statement, in order, on the store st.
RunStatement(st, t, relType) ==
    LET withS == MergeNode(st.nodes, t.f["subject"], Coalesce(t.f["subject_type"], Null))
        withO == MergeNode(withS, t.f["object"], Coalesce(t.f["object_type"], Null))
    IN  [nodes |-> withO, edges |-> MergeEdge(st.edges, Edge(t, relType))]

\* relType is pasted into the statement as a relationship type: the store
\* parses it as a name, which is not empty and does not start with a digit.
ValidRelType(relType) == relType # <<>> /\ relType[1] \notin Digit

\* The statements the store refuses whatever its condition: a relationship
\* type that is no name, or a MERGE on a name property that is null.
StatementRejected(t, relType) ==
    \/ ~ValidRelType(relType)
    \/ Coalesce(t.f["subject"], Null) = Null
    \/ Coalesce(t.f["object"], Null) = Null

(***************************************************************************)
(* The replies the model is given to make.                                 *)
(***************************************************************************)
Fields(s, st, sq, o, ot, oq, rel, stq) ==
    [k \in TripleKeys |->
        CASE k = "subject" -> s
          [] k = "subject_type" -> st
          [] k = "subject_qualifier" -> sq
          [] k = "object" -> o
          [] k = "object_type" -> ot
          [] k = "object_qualifier" -> oq
          [] k = "relationship" -> rel
          [] OTHER -> stq]

Aspirin == Str(<<"Aspirin">>)
COX == Str(<<"COX">>)
Chemical == Str(<<"chemical">>)
Protein == Str(<<"protein">>)
Gene == Str(<<"gene">>)

\* {"subject":"Aspirin", ..., "relationship":"a b", ...} with white space around it
LineFirst ==
    ReplyLine("object", TRUE,
        Fields(Aspirin, Chemical, Null, COX, Protein, Arr(<<"q">>),
               Str(<<"a", " ", "b">>), Null))
\* the same subject, object and edge-type, other types and qualifiers
LineAgain ==
    ReplyLine("object", FALSE,
        Fields(Aspirin, Gene, Arr(<<"r">>), COX, Chemical, Null,
               Str(<<"A", "-", "b">>), Str(<<"s">>)))
\* subject and object of one name; an empty qualifier array
LineSelf ==
    ReplyLine("object", FALSE,
        Fields(COX, Gene, Arr(<<>>), COX, Protein, Null, Str(<<"x">>), Null))
\* a relationship whose edge-type starts with a digit
LineDigit ==
    ReplyLine("object", FALSE,
        Fields(Aspirin, Chemical, Null, COX, Protein, Null, Str(<<"2", "x">>), Null))
\* valid JSON without relationship and without qualifiers
LineNoRel ==
    ReplyLine("object", FALSE,
        Fields(COX, Protein, Undefined, Aspirin, Chemical, Undefined, Undefined,
               Undefined))
\* a line cut off before the closing brace
LineTruncated ==
    ReplyLine("truncated", FALSE,
        Fields(Aspirin, Chemical, Undefined, Undefined, Undefined, Undefined,
               Undefined, Undefined))
LineNull == ReplyLine("null", FALSE, NoFields)
LineNumber == ReplyLine("number", FALSE, NoFields)
LineBlank == ReplyLine("blank", TRUE, NoFields)

\* The lines of the replies of a pipeline run.
PipelineLines ==
    {LineFirst, LineAgain, LineSelf, LineDigit, LineNoRel, LineTruncated, LineNull}

\* The lines of the replies the parse step is tried on by itself.
Lines == PipelineLines \cup {LineNumber, LineBlank}

RECURSIVE SeqsUpTo(_, _)
SeqsUpTo(S, len) ==
    IF len = 0 THEN {<<>>}
    ELSE LET shorter == SeqsUpTo(S, len - 1)
         IN  shorter \cup {Append(q, x) : q \in {r \in shorter : Len(r) = len - 1}, x \in S}

(***************************************************************************)
(* BedrockService.  A model id is the sequence of its parts, so that       *)
(* includes() is a search for a run of parts.                              *)
(***************************************************************************)
\* callModel calls made on one service
MaxCalls == 1

DefaultModelId == <<"us", ".", "anthropic", ".", "claude">>
LlamaModelId == <<"us", ".", "meta", ".", "llama", "3">>
EuAnthropicModelId == <<"eu", ".", "anthropic", ".", "claude">>
TitanModelId == <<"amazon", ".", "titan">>
ModelIds == {DefaultModelId, LlamaModelId, EuAnthropicModelId, TitanModelId}

\* s.includes(sub)
Includes(s, sub) ==
    \E k \in 0..(Len(s) - Len(sub)) : SubSeq(s, k + 1, k + Len(sub)) = sub

isAnthropicModel(modelId) == Includes(modelId, <<"us", ".", "anthropic", ".">>)
isMetaLlamaModel(modelId) == Includes(modelId, <<"meta", ".", "llama">>)

\* The branch the two if-chains of callModel take for a model id.
Family(modelId) ==
    IF isAnthropicModel(modelId) THEN "anthropic"
    ELSE IF isMetaLlamaModel(modelId) THEN "llama"
    ELSE "fallback"

\* The request schema of a branch: the unknown family is sent the Anthropic
\* body (messages, anthropic_version), Llama the flat prompt body.
SchemaOf(family) == IF family = "llama" THEN "llama" ELSE "anthropic"

NoRequest == [modelId |-> <<>>, schema |-> "none"]
InvokeModelCommand(modelId) == [modelId |-> modelId, schema |-> SchemaOf(Family(modelId))]

\* A non-zero number.
Num == [t |-> "number", v |-> <<>>]

\* a || b
Falsy(a) == a.t \in {"undefined", "null"} \/ a = Str(<<>>)
OrElse(a, b) == IF Falsy(a) THEN b ELSE a

\* What client.send can reject with: an Error with a name and a message, or
\* a value that is no Error.
ErrorNamed(name, message) == [isError |-> TRUE, name |-> name, message |-> message]
NotAnError == [isError |-> FALSE, name |-> "", message |-> <<>>]
BedrockErrorNames ==
    {"ValidationException", "ThrottlingException", "AccessDeniedException",
     "ResourceNotFoundException", "InternalServerException"}
RemoteErrors ==
    {ErrorNamed(name, <<"m">>) : name \in BedrockErrorNames \cup {"TimeoutError"}}
        \cup {NotAnError}

\* What client.send can resolve with: a body that is no JSON, or a JSON
\* object with or without content (the text of each content block),
\* generation and output_text.
Envelope(content, generation, output_text) ==
    [parses |-> TRUE, content |-> content, generation |-> generation,
     output_text |-> output_text]
NotJson == [parses |-> FALSE, content |-> Undefined, generation |-> Undefined,
            output_text |-> Undefined]
Envelopes ==
    {NotJson,
     Envelope(Undefined, Undefined, Undefined),
     Envelope(Arr(<<>>), Undefined, Undefined),
     Envelope(Arr(<<Str(<<>>)>>), Undefined, Undefined),
     Envelope(Arr(<<Str(<<"T">>)>>), Undefined, Undefined),
     Envelope(Undefined, Str(<<"G">>), Undefined),
     Envelope(Undefined, Str(<<>>), Str(<<"O">>)),
     Envelope(Undefined, Num, Undefined),
     Envelope(Arr(<<Str(<<"T">>)>>), Str(<<"G">>), Undefined)}

NoRemote == [how |-> "none", error |-> NotAnError, envelope |-> NotJson]

\* The outcome of a stretch of code: a value returned or an error thrown.
Returned(value) == [ok |-> TRUE, value |-> value, error |-> NotAnError]
Thrown(error) == [ok |-> FALSE, value |-> Undefined, error |-> error]

\* content?.[0]?.text
FirstText(content) ==
    IF content.t = "array" /\ Len(content.v) > 0 THEN content.v[1] ELSE Undefined

\* The decoding of the response after the await, by the family of the model
\* id the service has then.
Decode(family, env) ==
    IF ~env.parses
    THEN Thrown(ErrorNamed("SyntaxError", <<"Unexpected token">>))
    ELSE CASE family = "anthropic" ->
                IF ~Falsy(env.content) /\ Len(env.content.v) > 0
                THEN Returned(OrElse(FirstText(env.content), Str(<<>>)))
                ELSE Thrown(ErrorNamed("Error",
                                <<"No content in response from Anthropic model">>))
           [] family = "llama" ->
                LET text == OrElse(OrElse(env.generation, env.output_text), Str(<<>>))
                IN  IF text.t = "string" /\ Len(text.v) > 0
                    THEN Returned(text)
                    ELSE Thrown(ErrorNamed("Error",
                                    <<"No content in response from Meta Llama model">>))
           [] OTHER ->
                Returned(OrElse(OrElse(OrElse(FirstText(env.content), env.generation),
                                       env.output_text), Str(<<>>)))

isBedrockError(error) == error.isError /\ error.name \in BedrockErrorNames

\* new Error(...): the fixed part of the message and what is pasted into it.
NewError(text, detail) == [text |-> text, detail |-> detail]
NoError == NewError("", <<>>)

handleBedrockError(error, modelId) ==
    IF isBedrockError(error)
    THEN CASE error.name = "ValidationException" ->
                NewError("Validation error: ", error.message)
           [] error.name = "ThrottlingException" ->
                NewError("Request was throttled. Please try again later.", <<>>)
           [] error.name = "AccessDeniedException" ->
                NewError("Access denied. Please check your AWS credentials and permissions.",
                         <<>>)
           [] error.name = "ResourceNotFoundException" ->
                NewError("Model not found: ", modelId)
           [] error.name = "InternalServerException" ->
                NewError("Internal server error from AWS Bedrock.", <<>>)
           [] OTHER -> NewError("AWS Bedrock error: ", error.message)
    ELSE IF error.isError
    THEN NewError("Failed to call Bedrock: ", error.message)
    ELSE NewError("Unknown error occurred while calling Bedrock", <<>>)

(***************************************************************************)
(* State of one run of runPipeline.                                        *)
(***************************************************************************)
VARIABLES
    pc,          \* the await runPipeline is suspended at
    n,           \* records.length
    i,           \* the loop index of runPipeline
    reply,       \* what the model meant to say for record i
    llmOutput,   \* the text callModel returned for record i
    triples,     \* the Triple[] parsed from llmOutput
    j,           \* the position of ingestTriples in triples, from 1
    outcomes,    \* how the writeTransaction of each triple before j ended
    nodes,       \* the Entity nodes of the store
    edges,       \* the relationships of the store
    committed,   \* the store's log: the triples whose transaction committed
    logs,        \* the console
    session,     \* the session of the running ingestTriples call
    sessions,    \* the number of sessions opened so far
    driver,      \* the driver of neo4jSvc
    error,       \* the exception on its way out of runPipeline
    settled,     \* the promise runPipeline returned
    linesRead,   \* lines the model has returned so far
    faults,      \* writes the store has failed so far
    exit,        \* the process: whether it has ended, and its exit code
    bedrock      \* the BedrockService: its modelId and its callModel call

vars ==
    <<pc, n, i, reply, llmOutput, triples, j, outcomes, nodes, edges, committed,
      logs, session, sessions, driver, error, settled, linesRead, faults, exit,
      bedrock>>

\* The process before it ends: process.exitCode is 0 unless process.exit sets it.
Running == [exited |-> FALSE, code |-> 0]

\* new BedrockService(): the model id of the environment, or the default
\* 'us.anthropic.claude-sonnet-4-20250514-v1:0'; no callModel call yet.
BedrockService ==
    [pc |-> "idle", modelId |-> DefaultModelId, calls |-> 0, sent |-> NoRequest,
     remote |-> NoRemote, decodedAs |-> "none", result |-> "none",
     value |-> Undefined, thrown |-> NoError, console |-> <<>>]

\* const bedrock = new BedrockService(); const neo4jSvc = new Neo4jService();
\* then the await on fs.readFile.
Init ==
    /\ pc = "readFile"
    /\ n = 0
    /\ i = 0
    /\ reply = <<>>
    /\ llmOutput = <<>>
    /\ triples = <<>>
    /\ j = 0
    /\ outcomes = <<>>
    /\ nodes = <<>>
    /\ edges = <<>>
    /\ committed = <<>>
    /\ logs = <<>>
    /\ session = "none"
    /\ sessions = 0
    /\ driver = "open"
    /\ error = "none"
    /\ settled = "pending"
    /\ linesRead = 0
    /\ faults = 0
    /\ exit = Running
    /\ bedrock = BedrockService

\* Mutant: the loop test is i <= records.length.
LoopPcOffByOne(k, cnt) == IF k <= cnt THEN "callModel" ELSE "driverClose"

\* for (let i = 0; i < records.length; i++): the loop test with index k, and
\* what the code after it logs before its next await.
LoopPc(k, cnt) == IF k < cnt THEN "callModel" ELSE "driverClose"
LoopLog(k, cnt) == IF k < cnt THEN ProcessingLog(k, cnt) ELSE ProcessedLog(cnt)

\* The for..of of ingestTriples reaching position k: the loop is over, or
\* sanitiseRelationship throws outside the inner try, or the write is issued.
TriplePc(ts, k) ==
    IF k > Len(ts) THEN "sessionClose"
    ELSE IF SanitiseThrows(ts[k]) THEN "sessionClose"
    ELSE "writeTx"
TripleError(ts, k, err) ==
    IF k <= Len(ts) /\ SanitiseThrows(ts[k]) THEN "TypeError" ELSE err

\* fs.readFile or the CSV parse throws: nothing to process.
ReadFileFails ==
    /\ pc = "readFile"
    /\ error' = "source"
    /\ pc' = "driverClose"
    /\ UNCHANGED <<exit, bedrock, n, i, reply, llmOutput, triples, j, outcomes, nodes, edges,
                   committed, logs, session, sessions, driver, settled, linesRead,
                   faults>>

\* The source is read and parsed into cnt records; the loop starts.
ReadFileReturns(cnt) ==
    /\ pc = "readFile"
    /\ n' = cnt
    /\ logs' = logs \o <<StartingLog(cnt), LoopLog(0, cnt)>>
    /\ pc' = LoopPc(0, cnt)
    /\ UNCHANGED <<exit, bedrock, i, reply, llmOutput, triples, j, outcomes, nodes, edges,
                   committed, session, sessions, driver, error, settled, linesRead,
                   faults>>

\* Mutant: no finally around the loop: the exception leaves runPipeline
\* with the driver open.
CallModelThrowsNoFinally ==
    /\ pc = "callModel"
    /\ error' = "extraction"
    /\ settled' = "rejected"
    /\ pc' = "done"
    /\ UNCHANGED <<exit, bedrock, n, i, reply, llmOutput, triples, j, outcomes, nodes, edges,
                   committed, logs, session, sessions, driver, linesRead, faults>>

\* callModel rejects: runPipeline has no catch, the exception leaves the loop.
CallModelThrows ==
    /\ pc = "callModel"
    /\ error' = "extraction"
    /\ pc' = "driverClose"
    /\ UNCHANGED <<exit, bedrock, n, i, reply, llmOutput, triples, j, outcomes, nodes, edges,
                   committed, logs, session, sessions, driver, settled, linesRead,
                   faults>>

\* Mutant: ingestTriples is called without await: the loop goes on to the
\* next record while the batch of this one is still being written.
CallModelReturnsNoAwait(r) ==
    LET text == RenderReply(r)
        ts == ParseTriples(text)
        warned == logs \o ParseWarnings(text)
    IN  /\ pc = "callModel"
        /\ linesRead + Len(r) <= MaxLines
        /\ linesRead' = linesRead + Len(r)
        /\ reply' = r
        /\ llmOutput' = text
        /\ triples' = ts
        /\ i' = i + 1
        /\ pc' = LoopPc(i + 1, n)
        /\ IF Len(ts) > 0
           THEN /\ session' = "open"
                /\ sessions' = sessions + 1
                /\ j' = 1
                /\ outcomes' = <<>>
                /\ logs' = warned \o <<IngestedLog(Len(ts)), LoopLog(i + 1, n)>>
           ELSE /\ logs' = warned \o <<NoTriplesWarning, LoopLog(i + 1, n)>>
                /\ UNCHANGED <<session, sessions, j, outcomes>>
        /\ UNCHANGED <<exit, bedrock, n, nodes, edges, committed, driver, settled, faults,
                       error>>

\* Mutant: no test of triples.length: ingestTriples is called for every
\* record, with an empty batch too.
CallModelReturnsAlwaysIngests(r) ==
    LET text == RenderReply(r)
        ts == ParseTriples(text)
        warned == logs \o ParseWarnings(text)
    IN  /\ pc = "callModel"
        /\ linesRead + Len(r) <= MaxLines
        /\ linesRead' = linesRead + Len(r)
        /\ reply' = r
        /\ llmOutput' = text
        /\ triples' = ts
        /\ session' = "open"
        /\ sessions' = sessions + 1
        /\ j' = 1
        /\ outcomes' = <<>>
        /\ pc' = TriplePc(ts, 1)
        /\ error' = TripleError(ts, 1, error)
        /\ logs' = warned
        /\ UNCHANGED <<exit, bedrock, i, n, nodes, edges, committed, driver, settled,
                       faults>>

\* Mutant: the batch is handed to ingestTriples last line first.
CallModelReturnsReversed(r) ==
    LET text == RenderReply(r)
        parsed == ParseTriples(text)
        ts == [k \in 1..Len(parsed) |-> parsed[Len(parsed) + 1 - k]]
        warned == logs \o ParseWarnings(text)
    IN  /\ pc = "callModel"
        /\ linesRead + Len(r) <= MaxLines
        /\ linesRead' = linesRead + Len(r)
        /\ reply' = r
        /\ llmOutput' = text
        /\ triples' = ts
        /\ IF Len(ts) > 0
           THEN /\ session' = "open"
                /\ sessions' = sessions + 1
                /\ j' = 1
                /\ outcomes' = <<>>
                /\ pc' = TriplePc(ts, 1)
                /\ error' = TripleError(ts, 1, error)
                /\ logs' = warned
                /\ UNCHANGED i
           ELSE /\ logs' = warned \o <<NoTriplesWarning, LoopLog(i + 1, n)>>
                /\ i' = i + 1
                /\ pc' = LoopPc(i + 1, n)
                /\ UNCHANGED <<session, sessions, j, outcomes, error>>
        /\ UNCHANGED <<exit, bedrock, n, nodes, edges, committed, driver, settled, faults>>

\* callModel resolves with the text of r: the parse step, then either the
\* call of ingestTriples up to its first await or the else branch and the
\* next turn of the loop.
CallModelReturns(r) ==
    LET text == RenderReply(r)
        ts == ParseTriples(text)
        warned == logs \o ParseWarnings(text)
    IN  /\ pc = "callModel"
        /\ linesRead + Len(r) <= MaxLines
        /\ linesRead' = linesRead + Len(r)
        /\ reply' = r
        /\ llmOutput' = text
        /\ triples' = ts
        /\ IF Len(ts) > 0
           THEN /\ session' = "open"
                /\ sessions' = sessions + 1
                /\ j' = 1
                /\ outcomes' = <<>>
                /\ pc' = TriplePc(ts, 1)
                /\ error' = TripleError(ts, 1, error)
                /\ logs' = warned
                /\ UNCHANGED i
           ELSE /\ logs' = warned \o <<NoTriplesWarning, LoopLog(i + 1, n)>>
                /\ i' = i + 1
                /\ pc' = LoopPc(i + 1, n)
                /\ UNCHANGED <<session, sessions, j, outcomes, error>>
        /\ UNCHANGED <<exit, bedrock, n, nodes, edges, committed, driver, settled, faults>>

\* The write transaction of triples[j] commits.
WriteTransactionCommits ==
    LET t == triples[j]
        relType == sanitiseRelationship(t.f["relationship"].v)
        st == RunStatement([nodes |-> nodes, edges |-> edges], t, relType)
    IN  /\ pc = "writeTx"
        /\ ~StatementRejected(t, relType)
        /\ nodes' = st.nodes
        /\ edges' = st.edges
        /\ committed' = Append(committed, t)
        /\ outcomes' = Append(outcomes, "committed")
        /\ j' = j + 1
        /\ pc' = TriplePc(triples, j + 1)
        /\ error' = TripleError(triples, j + 1, error)
        /\ UNCHANGED <<exit, bedrock, n, i, reply, llmOutput, triples, logs, session, sessions,
                       driver, settled, linesRead, faults>>

\* Mutant: the catch is around the loop, not in it: the first failed write
\* is logged and ends the loop.
WriteTransactionFailsEndsLoop ==
    LET t == triples[j]
        relType == sanitiseRelationship(t.f["relationship"].v)
    IN  /\ pc = "writeTx"
        /\ StatementRejected(t, relType) \/ faults < MaxFaults
        /\ faults' = IF StatementRejected(t, relType) THEN faults ELSE faults + 1
        /\ logs' = Append(logs, IngestFailure(t, relType))
        /\ outcomes' = Append(outcomes, "failed")
        /\ pc' = "sessionClose"
        /\ UNCHANGED <<exit, bedrock, n, i, reply, llmOutput, triples, j, nodes, edges, committed,
                       session, sessions, driver, error, settled, linesRead>>

\* Mutant: the nodes and the edge are written by statements of their own:
\* when the edge is refused the two nodes are already in the store.
WriteTransactionFailsAfterNodes ==
    LET t == triples[j]
        relType == sanitiseRelationship(t.f["relationship"].v)
    IN  /\ pc = "writeTx"
        /\ StatementRejected(t, relType) \/ faults < MaxFaults
        /\ faults' = IF StatementRejected(t, relType) THEN faults ELSE faults + 1
        /\ nodes' = RunStatement([nodes |-> nodes, edges |-> edges], t, relType).nodes
        /\ logs' = Append(logs, IngestFailure(t, relType))
        /\ outcomes' = Append(outcomes, "failed")
        /\ j' = j + 1
        /\ pc' = TriplePc(triples, j + 1)
        /\ error' = TripleError(triples, j + 1, error)
        /\ UNCHANGED <<exit, bedrock, n, i, reply, llmOutput, triples, edges, committed,
                       session, sessions, driver, settled, linesRead>>

\* The write transaction of triples[j] fails, because the store refuses the
\* statement or because the store cannot be reached: the catch logs it.
WriteTransactionFails ==
    LET t == triples[j]
        relType == sanitiseRelationship(t.f["relationship"].v)
    IN  /\ pc = "writeTx"
        /\ StatementRejected(t, relType) \/ faults < MaxFaults
        /\ faults' = IF StatementRejected(t, relType) THEN faults ELSE faults + 1
        /\ logs' = Append(logs, IngestFailure(t, relType))
        /\ outcomes' = Append(outcomes, "failed")
        /\ j' = j + 1
        /\ pc' = TriplePc(triples, j + 1)
        /\ error' = TripleError(triples, j + 1, error)
        /\ UNCHANGED <<exit, bedrock, n, i, reply, llmOutput, triples, nodes, edges, committed,
                       session, sessions, driver, settled, linesRead>>

\* Mutant: the batch is one transaction of the session: when ingestTriples
\* ends with an exception, what the batch wrote is rolled back.
SessionClosesRollsBack ==
    LET kept == Len(committed) - Cardinality({k \in 1..Len(outcomes) :
                                                 outcomes[k] = "committed"})
        named == UNION {{committed[k].f["subject"], committed[k].f["object"]} :
                           k \in 1..kept}
    IN  /\ pc = "sessionClose"
        /\ session' = "closed"
        /\ pc' = IF error = "none" THEN "ingested" ELSE "driverClose"
        /\ IF error = "none"
           THEN UNCHANGED <<nodes, edges, committed>>
           ELSE /\ nodes' = SelectSeq(nodes, LAMBDA nd : nd.name \in named)
                /\ edges' = SelectSeq(edges, LAMBDA e :
                               \E k \in 1..kept :
                                   /\ committed[k].f["subject"] = e.subject
                                   /\ committed[k].f["object"] = e.object
                                   /\ sanitiseRelationship(
                                         committed[k].f["relationship"].v) = e.relType)
                /\ committed' = SubSeq(committed, 1, kept)
        /\ UNCHANGED <<exit, bedrock, n, i, reply, llmOutput, triples, j, outcomes, logs,
                       sessions, driver, error, settled, linesRead, faults>>

\* finally { await session.close() }: then ingestTriples resolves, or
\* rejects with the exception that ended its loop.
SessionCloses ==
    /\ pc = "sessionClose"
    /\ session' = "closed"
    /\ pc' = IF error = "none" THEN "ingested" ELSE "driverClose"
    /\ UNCHANGED <<exit, bedrock, n, i, reply, llmOutput, triples, j, outcomes, nodes, edges,
                   committed, logs, sessions, driver, error, settled, linesRead,
                   faults>>

\* runPipeline resumes after await neo4jSvc.ingestTriples(triples).
IngestTriplesReturns ==
    /\ pc = "ingested"
    /\ logs' = logs \o <<IngestedLog(Len(triples)), LoopLog(i + 1, n)>>
    /\ i' = i + 1
    /\ pc' = LoopPc(i + 1, n)
    /\ UNCHANGED <<exit, bedrock, n, reply, llmOutput, triples, j, outcomes, nodes, edges,
                   committed, session, sessions, driver, error, settled, linesRead,
                   faults>>

\* finally { await neo4jSvc.close() }: then runPipeline resolves, or rejects
\* with the exception that ended its try block.
DriverCloses ==
    /\ pc = "driverClose"
    /\ driver' = "closed"
    /\ settled' = IF error = "none" THEN "resolved" ELSE "rejected"
    /\ pc' = "done"
    /\ UNCHANGED <<exit, bedrock, n, i, reply, llmOutput, triples, j, outcomes, nodes, edges,
                   committed, logs, session, sessions, error, linesRead, faults>>

\* A main that catches the rejection and logs it without ending the process.
ProcessExitsKeepsCode ==
    /\ pc = "done"
    /\ ~exit.exited
    /\ exit' = [exited |-> TRUE, code |-> exit.code]
    /\ UNCHANGED <<bedrock, pc, n, i, reply, llmOutput, triples, j, outcomes, nodes,
                   edges, committed, logs, session, sessions, driver, error, settled,
                   linesRead, faults>>

\* runPipeline(file).catch((err) => { console.error(err); process.exit(1); }):
\* a rejection ends the process with code 1; after a resolution nothing is
\* left to run and the process ends with its exit code untouched.
ProcessExits ==
    /\ pc = "done"
    /\ ~exit.exited
    /\ exit' = [exited |-> TRUE,
                code |-> IF settled = "rejected" THEN 1 ELSE exit.code]
    /\ UNCHANGED <<bedrock, pc, n, i, reply, llmOutput, triples, j, outcomes, nodes,
                   edges, committed, logs, session, sessions, driver, error, settled,
                   linesRead, faults>>

Next ==
    \/ ReadFileFails
    \/ \E cnt \in 0..MaxRecords : ReadFileReturns(cnt)
    \/ CallModelThrows
    \/ \E r \in SeqsUpTo(PipelineLines, MaxLines - linesRead) : CallModelReturns(r)
    \/ WriteTransactionCommits
    \/ WriteTransactionFails
    \/ SessionCloses
    \/ IngestTriplesReturns
    \/ DriverCloses
    \/ ProcessExits

Spec == Init /\ [][Next]_vars

\* Every call that is awaited settles: the read of the source, callModel,
\* each write transaction, the closing of the session and of the driver; and
\* the process ends when nothing is left to run.
FairSpec == Spec /\ WF_vars(Next)

(***************************************************************************)
(* The parse step by itself: a run of one record, suspended at callModel,  *)
(* which resolves with any reply over Lines.                               *)
(***************************************************************************)
ParseInit ==
    /\ pc = "callModel"
    /\ n = 1
    /\ i = 0
    /\ reply = <<>>
    /\ llmOutput = <<>>
    /\ triples = <<>>
    /\ j = 0
    /\ outcomes = <<>>
    /\ nodes = <<>>
    /\ edges = <<>>
    /\ committed = <<>>
    /\ logs = <<StartingLog(1), LoopLog(0, 1)>>
    /\ session = "none"
    /\ sessions = 0
    /\ driver = "open"
    /\ error = "none"
    /\ settled = "pending"
    /\ linesRead = 0
    /\ faults = 0
    /\ exit = Running
    /\ bedrock = BedrockService

ParseNext == \E r \in SeqsUpTo(Lines, MaxLines) : CallModelReturns(r)

ParseSpec == ParseInit /\ [][ParseNext]_vars

(***************************************************************************)
(* One BedrockService by itself: callModel up to its await, the remote     *)
(* call rejecting or resolving, and setModelId called at any time.         *)
(***************************************************************************)
pipelineVars ==
    <<pc, n, i, reply, llmOutput, triples, j, outcomes, nodes, edges, committed, logs,
      session, sessions, driver, error, settled, linesRead, faults, exit>>

\* console.log(`Calling Bedrock model: ${this.modelId}`)
CallingLog(modelId) == [msg |-> "Calling Bedrock model", detail |-> modelId]

\* console.error('Error calling Bedrock:', error)
ErrorCallingLog(err) == [msg |-> "Error calling Bedrock", detail |-> err.message]

\* setModelId(modelId)
SetModelId(modelId) ==
    /\ bedrock' = [bedrock EXCEPT !.modelId = modelId]
    /\ UNCHANGED pipelineVars

\* callModel from its start to await this.client.send(command).
CallModelSends ==
    /\ bedrock.pc \in {"idle", "settled"}
    /\ bedrock.calls < MaxCalls
    /\ bedrock' = [bedrock EXCEPT
          !.pc = "sending",
          !.calls = @ + 1,
          !.sent = InvokeModelCommand(bedrock.modelId),
          !.remote = NoRemote,
          !.decodedAs = "none",
          !.result = "none",
          !.value = Undefined,
          !.thrown = NoError,
          !.console = Append(@, CallingLog(bedrock.modelId))]
    /\ UNCHANGED pipelineVars

\* The catch of callModel: the error is logged and what handleBedrockError
\* makes of it is thrown.
Caught(b, e) ==
    [b EXCEPT
        !.pc = "settled",
        !.result = "rejected",
        !.thrown = handleBedrockError(e, b.modelId),
        !.console = Append(@, ErrorCallingLog(e))]

\* client.send rejects with e.
SendRejects(e) ==
    /\ bedrock.pc = "sending"
    /\ bedrock' = Caught([bedrock EXCEPT !.remote = [NoRemote EXCEPT
                                              !.how = "rejected", !.error = e]], e)
    /\ UNCHANGED pipelineVars

\* client.send resolves with env: the body is decoded and parsed, the text
\* is taken by the family of this.modelId and returned, or the decoding
\* throws into the catch.
SendResolves(env) ==
    LET family == Family(bedrock.modelId)
        out == Decode(family, env)
        got == [bedrock EXCEPT
                   !.remote = [NoRemote EXCEPT !.how = "resolved", !.envelope = env],
                   !.decodedAs = family]
    IN  /\ bedrock.pc = "sending"
        /\ bedrock' = IF out.ok
                      THEN [got EXCEPT !.pc = "settled", !.result = "resolved",
                                       !.value = out.value]
                      ELSE Caught(got, out.error)
        /\ UNCHANGED pipelineVars

BedrockNext ==
    \/ \E modelId \in ModelIds : SetModelId(modelId)
    \/ CallModelSends
    \/ \E e \in RemoteErrors : SendRejects(e)
    \/ \E env \in Envelopes : SendResolves(env)

BedrockSpec == Init /\ [][BedrockNext]_vars

(***************************************************************************)
(* ingestTriples on one triple whose relationship is any string over       *)
(* RelChars: letters of both cases, a digit, a space, punctuation, the     *)
(* separator itself and a letter outside ASCII.                            *)
(***************************************************************************)
MaxRelLen == 3

RelChars == {"a", "x", "B", "2", " ", "-", "_", "é"}

LineWith(rel) ==
    ReplyLine("object", FALSE,
        Fields(Aspirin, Chemical, Null, COX, Protein, Null, Str(rel), Null))

SanitiseNext ==
    \/ \E rel \in SeqsUpTo(RelChars, MaxRelLen) : CallModelReturns(<<LineWith(rel)>>)
    \/ WriteTransactionCommits
    \/ WriteTransactionFails

SanitiseSpec == ParseInit /\ [][SanitiseNext]_vars

(***************************************************************************)
(* ingestTriples on a batch of two triples: the first from Aspirin to COX, *)
(* the second between the same two names in either direction or from COX   *)
(* to itself, each with any relationship over PairChars, and with          *)
(* different types and qualifiers.                                         *)
(***************************************************************************)
MaxPairLen == 2

PairChars == {"a", "A", "b", " ", "-"}

Endpoints == {<<Aspirin, COX>>, <<COX, Aspirin>>, <<COX, COX>>}

LineOne(rel) ==
    ReplyLine("object", FALSE,
        Fields(Aspirin, Chemical, Arr(<<"q">>), COX, Protein, Null, Str(rel), Null))

LineTwo(s, o, rel) ==
    ReplyLine("object", FALSE,
        Fields(s, Gene, Null, o, Gene, Arr(<<"r">>), Str(rel), Str(<<"s">>)))

PairNext ==
    \/ /\ pc = "callModel"
       /\ \E rel1, rel2 \in SeqsUpTo(PairChars, MaxPairLen), so \in Endpoints :
              CallModelReturns(<<LineOne(rel1), LineTwo(so[1], so[2], rel2)>>)
    \/ WriteTransactionCommits
    \/ WriteTransactionFails

PairSpec == ParseInit /\ [][PairNext]_vars

(***************************************************************************)
(* Vocabulary of the properties.                                           *)
(***************************************************************************)
\* The edge-type ingestTriples derives for a triple with a relationship.
RelTypeOf(t) == sanitiseRelationship(t.f["relationship"].v)

\* (subject name, edge-type, object name) of two triples agree.
SameEdgeKey(t, u) ==
    /\ t.f["subject"] = u.f["subject"]
    /\ t.f["object"] = u.f["object"]
    /\ RelTypeOf(t) = RelTypeOf(u)

\* t has the shape of interface Triple.
TripleShaped(t) ==
    /\ t.kind = "object"
    /\ \A k \in {"subject", "subject_type", "object", "object_type", "relationship"} :
          t.f[k].t = "string"
    /\ \A k \in {"subject_qualifier", "object_qualifier"} : t.f[k].t \in {"array", "null"}
    /\ t.f["statement_qualifier"].t \in {"array", "string", "null"}

\* The console since the last "Processing record" line.
RecordLogs ==
    LET at == {k \in 1..Len(logs) : logs[k].msg = "Processing record"}
    IN  IF at = {} THEN logs
        ELSE SubSeq(logs, (CHOOSE k \in at : \A m \in at : m <= k) + 1, Len(logs))

(***************************************************************************)
(* C1  Ingest is idempotent.  For every triple whose write has committed,  *)
(* however often and with whatever qualifiers it was written again, the    *)
(* store holds exactly one node of its subject name, one node of its       *)
(* object name and one edge of its edge-type between them, and that edge   *)
(* carries the qualifiers and the source of the first committed write of   *)
(* that (subject, edge-type, object).                                      *)
(***************************************************************************)
IngestIdempotent ==
    \A k \in 1..Len(committed) :
        LET t == committed[k]
            same == {m \in 1..Len(committed) : SameEdgeKey(committed[m], t)}
            first == CHOOSE m \in same : \A m2 \in same : m <= m2
            at == EdgesKeyed(edges, t.f["subject"], RelTypeOf(t), t.f["object"])
        IN  /\ Cardinality(NodesNamed(nodes, t.f["subject"])) = 1
            /\ Cardinality(NodesNamed(nodes, t.f["object"])) = 1
            /\ Cardinality(at) = 1
            /\ \A e \in at : edges[e] = Edge(committed[first], RelTypeOf(t))

\* The same (subject, edge-type, object) has been written twice, in two
\* calls of ingestTriples, the second time with other qualifiers.
IngestedTwice ==
    /\ i = 1
    /\ Len(committed) = 2
    /\ outcomes = <<"committed">>
    /\ SameEdgeKey(committed[1], committed[2])
    /\ Edge(committed[1], RelTypeOf(committed[1])) #
          Edge(committed[2], RelTypeOf(committed[2]))
    /\ Len(edges) = 1

(***************************************************************************)
(* C2  The type of a node is create-only.  Every node carries the type     *)
(* that the first committed triple naming it gave it (its subject_type if  *)
(* that triple names it as subject, else its object_type), whatever types  *)
(* later triples give the same name.                                       *)
(***************************************************************************)
Names(t) == {t.f["subject"], t.f["object"]}

TypeGiven(t, name) ==
    IF t.f["subject"] = name
    THEN Coalesce(t.f["subject_type"], Null)
    ELSE Coalesce(t.f["object_type"], Null)

TypeIsCreateOnly ==
    \A k \in 1..Len(nodes) :
        LET naming == {m \in 1..Len(committed) : nodes[k].name \in Names(committed[m])}
        IN  /\ naming # {}
            /\ nodes[k].type =
                  TypeGiven(committed[CHOOSE m \in naming : \A m2 \in naming : m <= m2],
                            nodes[k].name)

\* A node has been named again by a later committed triple that gives it
\* another type.
TypeGivenAgain ==
    \E k \in 1..Len(nodes) :
        \E m \in 1..Len(committed) :
            /\ nodes[k].name \in Names(committed[m])
            /\ TypeGiven(committed[m], nodes[k].name) # nodes[k].type

(***************************************************************************)
(* C3  Entity names are unique: the store never holds two nodes of one     *)
(* name, also when the triples naming it come from different records.      *)
(***************************************************************************)
NamesUnique ==
    \A k1, k2 \in 1..Len(nodes) : nodes[k1].name = nodes[k2].name => k1 = k2

\* Two records have each committed a triple with subject Aspirin.
SameSubjectInTwoRecords ==
    /\ i = 1
    /\ Len(committed) = 2
    /\ outcomes = <<"committed">>
    /\ committed[1].f["subject"] = Aspirin
    /\ committed[2].f["subject"] = Aspirin
    /\ Cardinality(NodesNamed(nodes, Aspirin)) = 1

(***************************************************************************)
(* C4  Per-triple isolation on store failure.  When the loop of            *)
(* ingestTriples has ended on a batch of triples of the Triple shape and   *)
(* exactly one of their writes has failed, every triple has had its turn,  *)
(* the edge of each of the others is in the store, the record's only error *)
(* line names the subject, edge-type and object of the failed one, and no  *)
(* exception is on its way out, so ingestTriples resolves and the record   *)
(* loop goes on.                                                           *)
(***************************************************************************)
FailedAt == {k \in 1..Len(outcomes) : outcomes[k] = "failed"}

OneFailureIsolated ==
    ( /\ pc \in {"sessionClose", "ingested"}
      /\ \A k \in 1..Len(triples) : TripleShaped(triples[k])
      /\ Cardinality(FailedAt) = 1 )
    => LET bad == CHOOSE k \in FailedAt : TRUE
       IN  /\ Len(outcomes) = Len(triples)
           /\ \A k \in (1..Len(triples)) \ {bad} :
                 EdgesKeyed(edges, triples[k].f["subject"], RelTypeOf(triples[k]),
                            triples[k].f["object"]) # {}
           /\ SelectSeq(RecordLogs, LAMBDA e : e.level = "error") =
                 <<IngestFailure(triples[bad], RelTypeOf(triples[bad]))>>
           /\ error = "none"

\* ingestTriples has resolved on three triples, the second of which failed.
MiddleWriteFailed ==
    /\ pc = "ingested"
    /\ outcomes = <<"committed", "failed", "committed">>
    /\ \A k \in 1..Len(triples) : TripleShaped(triples[k])
    /\ error = "none"

(***************************************************************************)
(* C5  An extraction failure for one record does not fail the batch: when  *)
(* callModel has thrown for record i, the run does not end before every    *)
(* record after i has had its turn.                                        *)
(***************************************************************************)
ExtractionFailureIsolated ==
    (error = "extraction" /\ pc = "done") => i + 1 >= n

(***************************************************************************)
(* C6  A triple without a relationship is contained to its own ingestion:  *)
(* when the loop of ingestTriples ends, it has gone past every triple of   *)
(* the batch and no exception is on its way out to the record loop.        *)
(***************************************************************************)
IncompleteTripleContained ==
    pc = "sessionClose" => (j > Len(triples) /\ error = "none")

(***************************************************************************)
(* C7  For every reply, whatever its mix of lines that are valid JSON and  *)
(* lines that are not, the parse step yields exactly the values of the     *)
(* valid lines, in order: a line that is no valid JSON yields nothing, no  *)
(* partly filled Triple either, and the lines after it are still parsed.   *)
(* A valid line yields the value it holds; the literal null holds none.    *)
(***************************************************************************)
ObjectsOf(r) ==
    LET objs == SelectSeq(r, LAMBDA l : l.kind = "object")
    IN  [k \in 1..Len(objs) |-> JsObject(objs[k].f)]

ValuesOf(r) ==
    LET vals == SelectSeq(r, LAMBDA l : l.kind \in {"object", "number"})
    IN  [k \in 1..Len(vals) |->
            IF vals[k].kind = "object" THEN JsObject(vals[k].f) ELSE JsNumber]

ParseYieldsValidLines == triples = ValuesOf(reply)

\* A line cut off in the middle stands between two object lines, and both
\* of those have been parsed.
MixedReplyParsed ==
    /\ reply = <<LineFirst, LineTruncated, LineSelf>>
    /\ triples = <<JsObject(LineFirst.f), JsObject(LineSelf.f)>>

(***************************************************************************)
(* C8  For a well-formed JSON-Lines reply (every line a JSON object or     *)
(* blank, with or without white space around it) the parse step yields one *)
(* Triple per non-blank line, in the order of the lines, each with the     *)
(* members of its line: a qualifier given as null is null in the Triple,   *)
(* not absent and not an empty array.                                      *)
(***************************************************************************)
QualifierKeys == {"subject_qualifier", "object_qualifier", "statement_qualifier"}

ParsePreservesWellFormedLines ==
    (\A k \in 1..Len(reply) : reply[k].kind \in {"object", "blank"})
    => /\ triples = ObjectsOf(reply)
       /\ Len(triples) = Cardinality({k \in 1..Len(reply) : reply[k].kind = "object"})
       /\ \A k \in 1..Len(triples) : \A q \in QualifierKeys :
             (ObjectsOf(reply)[k].f[q] = Null) <=> (triples[k].f[q] = Null)

\* A padded line with null qualifiers, a blank line and a second object
\* line have been parsed.
WellFormedReplyParsed ==
    /\ reply = <<LineFirst, LineBlank, LineSelf>>
    /\ Len(triples) = 2
    /\ triples[1].f["subject_qualifier"] = Null
    /\ triples[2].f["subject_qualifier"] = Arr(<<>>)

(***************************************************************************)
(* C9  No discard is silent: every non-blank line of the reply that does   *)
(* not become a Triple has a warning holding that line, and once           *)
(* ingestTriples is over every triple of the batch whose write did not     *)
(* commit has an error line naming it.                                     *)
(***************************************************************************)
BecomesTriple(line) == JSONParse(line).ok /\ Truthy(JSONParse(line).val)

NoSilentDiscard ==
    /\ \A k \in 1..Len(NonBlankLines(llmOutput)) :
          LET line == NonBlankLines(llmOutput)[k]
          IN  ~BecomesTriple(line) =>
                 \E e \in 1..Len(logs) : logs[e] = MalformedWarning(line)
    /\ session = "closed" =>
          \A k \in 1..Len(triples) :
              \/ k <= Len(outcomes) /\ outcomes[k] = "committed"
              \/ \E e \in 1..Len(logs) :
                    /\ logs[e].level = "error"
                    /\ logs[e].subject = triples[k].f["subject"]
                    /\ logs[e].object = triples[k].f["object"]

(***************************************************************************)
(* C10 as stated: one session is held open for the whole run, from the     *)
(* first model call to the end of the last ingestion, and the run opens no *)
(* second one; the connection is released when the run ends and no write   *)
(* is issued after the release.                                            *)
(***************************************************************************)
OneSessionForTheRun ==
    /\ pc \in {"callModel", "writeTx", "sessionClose", "ingested"} => session = "open"
    /\ sessions <= 1
    /\ pc = "done" => driver = "closed"
    /\ pc = "writeTx" => driver = "open"

(***************************************************************************)
(* C10 as amended: at most one session is open at a time, one per call of  *)
(* ingestTriples, open exactly while that call is writing or closing it    *)
(* (so none is open while the model is called, and a run opens at most one *)
(* per record); the driver made at the start of runPipeline is open until  *)
(* the run's finally block and closed when the run has ended, on every     *)
(* exit path; no write is issued without an open session and driver.       *)
(***************************************************************************)
SessionPerIngestDriverPerRun ==
    /\ session = "open" <=> pc \in {"writeTx", "sessionClose"}
    /\ sessions <= i + 1
    /\ sessions <= n
    /\ driver = "closed" <=> pc = "done"
    /\ pc = "done" => settled = (IF error = "none" THEN "resolved" ELSE "rejected")
    /\ pc = "writeTx" => (driver = "open" /\ session = "open")

\* The run has ended on a failure in the middle of its second batch, with
\* the second session and the driver closed.
ReleasedAfterMidBatchFailure ==
    /\ pc = "done"
    /\ error = "TypeError"
    /\ sessions = 2
    /\ Len(committed) >= 2
    /\ j <= Len(triples)
    /\ session = "closed"
    /\ driver = "closed"

(***************************************************************************)
(* C11  Records are processed once each, in source order, one at a time.   *)
(* In every step the record index stays or goes up by one; it goes up only *)
(* when the ingestion of the current record has returned or the record was *)
(* skipped; an extraction call is outstanding only while no session is     *)
(* open and no write is in progress; the "Processing record" lines of the  *)
(* console are numbered 1, 2, ... with no number twice, the last being the *)
(* record in hand; and a run that resolves has processed every record.     *)
(***************************************************************************)
ProcessingLogs == SelectSeq(logs, LAMBDA e : e.msg = "Processing record")

ProcessedOnceInOrder ==
    [][/\ i' \in {i, i + 1}
       /\ i' = i + 1 =>
             /\ pc \in {"callModel", "ingested"}
             /\ pc' \in {"callModel", "driverClose"}
             /\ pc = "ingested" => session = "closed" /\ j > Len(triples)
       /\ (pc' = "callModel" /\ pc # "readFile") => i' = i + 1
       /\ pc' = "callModel" =>
             /\ session' # "open"
             /\ i' < n'
             /\ Len(ProcessingLogs') = i' + 1
       /\ \A k \in 1..Len(ProcessingLogs') : ProcessingLogs'[k].n = k
       /\ Len(ProcessingLogs') <= n'
       /\ settled' = "resolved" => i' = n' /\ Len(ProcessingLogs') = n'
      ]_vars

\* The second record's extraction call is outstanding after the first
\* record's batch has been written and its session closed.
SecondRecordAfterFirstIngested ==
    /\ pc = "callModel"
    /\ i = 1
    /\ session = "closed"
    /\ committed # <<>>
    /\ Len(ProcessingLogs) = 2

(***************************************************************************)
(* C12  The ingestor is invoked for a record if and only if the parse step *)
(* produced at least one Triple, and then once, with all of the record's   *)
(* Triples.  When callModel resolves: with one Triple or more, exactly one *)
(* ingestTriples call starts (one session opens) on the whole parsed list, *)
(* beginning at its first triple; with none, no call starts, the store and *)
(* its log are untouched, 'No triples extracted for record' is logged and  *)
(* the loop moves on.  No other step starts a call or changes the batch,   *)
(* and a call that returns has tried every triple of the batch.            *)
(***************************************************************************)
CallModelResolved == pc = "callModel" /\ error' # "extraction"

IngestorInvokedIffTriples ==
    [][/\ CallModelResolved =>
             /\ triples' = ParseTriples(llmOutput')
             /\ IF Len(triples') >= 1
                THEN /\ sessions' = sessions + 1
                     /\ session' = "open"
                     /\ j' = 1
                     /\ outcomes' = <<>>
                     /\ i' = i
                     /\ pc' \in {"writeTx", "sessionClose"}
                ELSE /\ sessions' = sessions
                     /\ session' = session
                     /\ <<nodes', edges', committed'>> = <<nodes, edges, committed>>
                     /\ i' = i + 1
                     /\ Len(logs') >= 2
                     /\ logs'[Len(logs') - 1] = NoTriplesWarning
                     /\ pc' \in {"callModel", "driverClose"}
       /\ ~CallModelResolved =>
             /\ sessions' = sessions
             /\ triples' = triples
             /\ NoTriplesWarning \notin
                   {logs'[k] : k \in (Len(logs) + 1)..Len(logs')}
       /\ pc' = "ingested" => Len(outcomes') = Len(triples') /\ Len(triples') >= 1
      ]_vars

\* The first record gave no Triple and was skipped; the second gave two and
\* its ingestTriples call, the first of the run, is writing.
SkippedThenIngesting ==
    /\ i = 1
    /\ pc = "writeTx"
    /\ sessions = 1
    /\ Len(triples) = 2
    /\ \E k \in 1..Len(logs) : logs[k] = NoTriplesWarning
    /\ committed = <<>>

(***************************************************************************)
(* C13  Within one record the triples are ingested one at a time, in the   *)
(* order the parse step returned them.  While ingestTriples runs: the      *)
(* batch is the parse result of the reply, in its order; the write of      *)
(* triple j is outstanding only when each of the j-1 triples before it has *)
(* committed or failed; the store's commits of this batch are the          *)
(* committed triples of the batch in batch order; and a node this batch    *)
(* created carries the type given by the earliest line of the reply whose  *)
(* write committed and that names it, whatever later lines say.            *)
(***************************************************************************)
InBatch == pc \in {"writeTx", "sessionClose", "ingested"}

\* Positions of the batch whose write has committed.
CommittedAt == {k \in 1..Len(outcomes) : outcomes[k] = "committed"}

\* The committed triples of the batch, in batch order.
BatchCommitted ==
    LET at == SelectSeq([k \in 1..Len(outcomes) |-> k], LAMBDA k : k \in CommittedAt)
    IN  [m \in 1..Len(at) |-> triples[at[m]]]

\* What the store had committed before this batch.
BeforeBatch == SubSeq(committed, 1, Len(committed) - Len(BatchCommitted))

IngestedInParseOrder ==
    InBatch =>
        LET parsed == ParseTriples(llmOutput)
        IN  /\ triples = parsed
            /\ Len(outcomes) <= Len(triples)
            /\ j = Len(outcomes) + 1
            /\ Len(BatchCommitted) <= Len(committed)
            /\ committed = BeforeBatch \o BatchCommitted
            /\ \A k \in 1..Len(nodes) :
                  LET name == nodes[k].name
                      naming == {m \in CommittedAt : name \in Names(parsed[m])}
                      before == {m \in 1..Len(BeforeBatch) : name \in Names(BeforeBatch[m])}
                  IN  (before = {}) =>
                          /\ naming # {}
                          /\ nodes[k].type =
                                TypeGiven(parsed[CHOOSE m \in naming :
                                                    \A m2 \in naming : m <= m2], name)

\* Two lines of one reply named the same new entity with different types
\* and both writes have committed.
TwoTypesInOneBatch ==
    /\ InBatch
    /\ committed = triples
    /\ Len(triples) = 2
    /\ \E k \in 1..Len(nodes) :
          /\ nodes[k].name \in Names(triples[1]) \cap Names(triples[2])
          /\ TypeGiven(triples[1], nodes[k].name) # TypeGiven(triples[2], nodes[k].name)
          /\ nodes[k].type = TypeGiven(triples[1], nodes[k].name)

(***************************************************************************)
(* C14  The derived edge-type is an identifier.  For every relationship    *)
(* string over RelChars of length up to MaxRelLen, the edge-type that      *)
(* ingestTriples puts into the store or, when the write fails, into the    *)
(* console, contains only uppercase letters, digits and '_', and is not    *)
(* empty when the relationship has an alphanumeric character.              *)
(***************************************************************************)
IdentifierChars == UpperCase \cup Digit \cup {"_"}

\* The edge-types ingestTriples has derived, as the store and the console
\* hold them.
DerivedRelTypes ==
    {edges[k].relType : k \in 1..Len(edges)} \cup
    {logs[k].relType : k \in {m \in 1..Len(logs) : logs[m].msg = "Failed to ingest triple"}}

SanitisedIsIdentifier ==
    /\ \A w \in DerivedRelTypes : \A k \in 1..Len(w) : w[k] \in IdentifierChars
    /\ pc = "sessionClose" =>
          LET rel == triples[1].f["relationship"].v
          IN  /\ DerivedRelTypes # {}
              /\ (\E k \in 1..Len(rel) : rel[k] \in AlphaNum) =>
                    \A w \in DerivedRelTypes : w # <<>>

\* An edge was written for a relationship with a lowercase letter and a
\* character that is no letter or digit.
MixedRelationshipWritten ==
    /\ pc = "sessionClose"
    /\ Len(edges) = 1
    /\ LET rel == triples[1].f["relationship"].v
       IN  /\ \E k \in 1..Len(rel) : rel[k] \in LowerCase
           /\ \E k \in 1..Len(rel) : rel[k] \notin AlphaNum
           /\ Len(rel) = 3

(***************************************************************************)
(* C15  The exit code tells whether the run completed.  When the process   *)
(* has ended, its exit code is 0 if and only if runPipeline resolved, and  *)
(* then every record of the batch was taken up, skipped records and        *)
(* failed writes included; it is 1 if and only if runPipeline rejected.    *)
(***************************************************************************)
ExitCodeTellsCompletion ==
    /\ ~exit.exited => exit.code = 0
    /\ exit.exited =>
          /\ settled \in {"resolved", "rejected"}
          /\ exit.code = 0 <=> settled = "resolved"
          /\ exit.code = 1 <=> settled = "rejected"
          /\ settled = "resolved" =>
                /\ i = n
                /\ logs[Len(logs)] = ProcessedLog(n)
          /\ settled = "rejected" => error # "none"

\* The process has ended with code 0 after a run in which one record was
\* skipped and a write of the other failed.
ExitedZeroAfterSkipAndDiscard ==
    /\ exit.exited
    /\ exit.code = 0
    /\ n = 2
    /\ \E k \in 1..Len(logs) : logs[k] = NoTriplesWarning
    /\ \E k \in 1..Len(logs) : logs[k].msg = "Failed to ingest triple"

(***************************************************************************)
(* C16  A failed remote call is classified.  When callModel has settled    *)
(* after the remote call rejected, or resolved with a response that has no *)
(* content, callModel has thrown, and the kind of what it threw is the one *)
(* the remote error's name stands for: invalid-request, rate-limited,      *)
(* access-denied, model-not-found or upstream-internal-error for the five  *)
(* named errors, unknown for everything else.                              *)
(***************************************************************************)
\* The kind a thrown message stands for.
KindOf(thrown) ==
    CASE thrown.text = "Validation error: " -> "invalid-request"
      [] thrown.text = "Request was throttled. Please try again later." -> "rate-limited"
      [] thrown.text = "Access denied. Please check your AWS credentials and permissions."
            -> "access-denied"
      [] thrown.text = "Model not found: " -> "model-not-found"
      [] thrown.text = "Internal server error from AWS Bedrock."
            -> "upstream-internal-error"
      [] OTHER -> "unknown"

\* The kind the name of a remote error stands for.
KindOfName(e) ==
    IF ~e.isError THEN "unknown"
    ELSE CASE e.name = "ValidationException" -> "invalid-request"
           [] e.name = "ThrottlingException" -> "rate-limited"
           [] e.name = "AccessDeniedException" -> "access-denied"
           [] e.name = "ResourceNotFoundException" -> "model-not-found"
           [] e.name = "InternalServerException" -> "upstream-internal-error"
           [] OTHER -> "unknown"

\* A response envelope without any text: no content block, no generation,
\* no output_text.
NoContent(env) ==
    /\ env.parses
    /\ FirstText(env.content) = Undefined
    /\ env.generation = Undefined
    /\ env.output_text = Undefined

RemoteFailureClassified ==
    bedrock.pc = "settled" =>
        /\ bedrock.remote.how = "rejected" =>
              /\ bedrock.result = "rejected"
              /\ KindOf(bedrock.thrown) = KindOfName(bedrock.remote.error)
        /\ (bedrock.remote.how = "resolved" /\ NoContent(bedrock.remote.envelope)) =>
              /\ bedrock.result = "rejected"
              /\ KindOf(bedrock.thrown) = "unknown"

(***************************************************************************)
(* C17  The store only grows.  In every step of a run, failed writes,      *)
(* skipped records and the steps of an aborted run included, every node    *)
(* and every edge of the store is still there afterwards, with the         *)
(* properties it had, and the store's record of commits is only added to.  *)
(***************************************************************************)
IsPrefix(s, t) == Len(s) <= Len(t) /\ SubSeq(t, 1, Len(s)) = s

StoreOnlyGrows ==
    [][/\ IsPrefix(nodes, nodes')
       /\ IsPrefix(edges, edges')
       /\ IsPrefix(committed, committed')
      ]_vars

\* A run has aborted on a triple without relationship after a write of the
\* same batch had committed and another had failed: the store still holds
\* what was committed.
AbortedWithStoreKept ==
    /\ pc = "done"
    /\ error = "TypeError"
    /\ settled = "rejected"
    /\ outcomes = <<"committed", "failed">>
    /\ Len(edges) = 1
    /\ Len(nodes) = 2

(***************************************************************************)
(* C18  A failed triple leaves the store unchanged.  The step in which the *)
(* write of a triple fails changes no node and no edge and adds nothing to *)
(* the store's commits, and logs the failure with the triple's subject,    *)
(* edge-type and object; so every node of the store is named by, and every *)
(* edge is the edge of, a triple whose write committed.                    *)
(***************************************************************************)
WriteFailed ==
    /\ pc = "writeTx"
    /\ Len(outcomes') = Len(outcomes) + 1
    /\ outcomes'[Len(outcomes')] = "failed"

FailedTripleLeavesStore ==
    [][/\ WriteFailed =>
             /\ <<nodes', edges', committed'>> = <<nodes, edges, committed>>
             /\ logs' = Append(logs, IngestFailure(triples[j], RelTypeOf(triples[j])))
       /\ \A k \in 1..Len(nodes') :
             \E m \in 1..Len(committed') : nodes'[k].name \in Names(committed'[m])
       /\ \A k \in 1..Len(edges') :
             \E m \in 1..Len(committed') :
                 /\ edges'[k].subject = committed'[m].f["subject"]
                 /\ edges'[k].object = committed'[m].f["object"]
                 /\ edges'[k].relType = RelTypeOf(committed'[m])
      ]_vars

\* The store has refused the only triple of the first batch for its
\* edge-type, and is as empty as before.
RejectedTripleLeftNothing ==
    /\ pc = "sessionClose"
    /\ i = 0
    /\ outcomes = <<"failed">>
    /\ ~ValidRelType(RelTypeOf(triples[1]))
    /\ nodes = <<>>
    /\ edges = <<>>
    /\ committed = <<>>

(***************************************************************************)
(* C19  The number in 'Ingested N triples for record' is the number of     *)
(* triples written.  When runPipeline has just logged that line for a      *)
(* batch and has not gone into the next one, N is the number of triples of *)
(* the batch whose write committed.                                        *)
(***************************************************************************)
IngestedCountIsWritten ==
    (/\ ~InBatch
     /\ error = "none"
     /\ Len(logs) >= 2
     /\ logs[Len(logs) - 1].msg = "Ingested triples for record") =>
        logs[Len(logs) - 1].n = Cardinality(CommittedAt)

(***************************************************************************)
(* C20  The run terminates and accounts for every record.  When every      *)
(* awaited call settles, runPipeline settles; and when it resolves, the    *)
(* loop has gone through all n records, each record has exactly one        *)
(* 'Ingested ... triples for record' or 'No triples extracted for record'  *)
(* line between its 'Processing record' line and the next, and the last    *)
(* line of the console is 'Processed n records' with n the number of       *)
(* records read.                                                           *)
(***************************************************************************)
\* Positions of the console lines that open a record or close the loop.
Marks == {k \in 1..Len(logs) : logs[k].msg \in {"Processing record", "Processed records"}}

\* The number of terminal lines (Ingested or Skipped) of the record opened
\* at position k of the console.
TerminalLines(k) ==
    LET later == {m \in Marks : m > k}
        upto == IF later = {} THEN Len(logs) + 1
                ELSE CHOOSE m \in later : \A m2 \in later : m <= m2
    IN  Cardinality({m \in (k + 1)..(upto - 1) :
            logs[m].msg \in {"Ingested triples for record",
                             "No triples extracted for record"}})

EveryRecordSettled ==
    /\ i = n
    /\ Len(ProcessingLogs) = n
    /\ \A k \in 1..Len(logs) : logs[k].msg = "Processing record" => TerminalLines(k) = 1
    /\ logs[Len(logs)] = ProcessedLog(n)
    /\ Cardinality({k \in 1..Len(logs) : logs[k].msg = "Processed records"}) = 1

RunTerminatesWithEveryRecordSettled ==
    /\ <>(settled # "pending")
    /\ [](settled = "resolved" => EveryRecordSettled)

\* A run of two records has resolved, one record ingested and one skipped.
ResolvedAfterIngestAndSkip ==
    /\ settled = "resolved"
    /\ n = 2
    /\ \E k \in 1..Len(logs) : logs[k] = NoTriplesWarning
    /\ \E k \in 1..Len(logs) : logs[k].msg = "Ingested triples for record"
    /\ committed # <<>>

(***************************************************************************)
(* C21  The graph is well formed in every store state.  Both endpoints of  *)
(* every edge are nodes of the store, and no two edges have the same       *)
(* subject name, edge-type and object name in that order; two edges of     *)
(* different edge-types, or of opposite directions, between the same two   *)
(* names are two edges.                                                    *)
(***************************************************************************)
GraphIsWellFormed ==
    /\ \A k \in 1..Len(edges) :
          /\ NodesNamed(nodes, edges[k].subject) # {}
          /\ NodesNamed(nodes, edges[k].object) # {}
    /\ \A k, m \in 1..Len(edges) :
          (/\ edges[k].subject = edges[m].subject
           /\ edges[k].relType = edges[m].relType
           /\ edges[k].object = edges[m].object) => k = m

\* Two edges of different edge-types join the same subject and object.
TwoEdgeTypesBetweenOnePair ==
    /\ Len(edges) = 2
    /\ edges[1].subject = edges[2].subject
    /\ edges[1].object = edges[2].object
    /\ edges[1].relType # edges[2].relType
    /\ Len(nodes) = 2

(***************************************************************************)
(* C22  A triple from a name to itself makes one node and one self-edge.   *)
(* When the first triple written to the empty store has the same name as   *)
(* subject and object, the store then holds exactly one node, of that name *)
(* and of the triple's subject_type, not its object_type, and exactly one  *)
(* edge, from that node to itself; and whatever is written later, that     *)
(* name stays one node of that type.                                       *)
(***************************************************************************)
SelfTriple(t) == t.f["subject"] = t.f["object"]

SelfTripleMakesOneNode ==
    (Len(committed) >= 1 /\ SelfTriple(committed[1])) =>
        LET t == committed[1]
            name == t.f["subject"]
        IN  /\ Cardinality(NodesNamed(nodes, name)) = 1
            /\ \A k \in NodesNamed(nodes, name) :
                  nodes[k] = Node(name, Coalesce(t.f["subject_type"], Null))
            /\ Len(committed) = 1 =>
                  /\ nodes = <<Node(name, Coalesce(t.f["subject_type"], Null))>>
                  /\ edges = <<Edge(t, RelTypeOf(t))>>
                  /\ edges[1].subject = name
                  /\ edges[1].object = name

\* The first write of the run was a triple from COX to COX whose
\* subject_type and object_type differ, and nothing else has been written.
SelfTripleWrittenFirst ==
    /\ Len(committed) = 1
    /\ SelfTriple(committed[1])
    /\ committed[1].f["subject_type"] # committed[1].f["object_type"]
    /\ outcomes = <<"committed">>
    /\ Len(nodes) = 1

(***************************************************************************)
(* C23  Relationships that differ only in letter case or in which          *)
(* non-alphanumeric characters stand at the same positions give one        *)
(* edge-type.  When both triples of a batch have been tried and their      *)
(* relationship strings differ only in that way, ingestTriples has derived *)
(* one and the same edge-type for both; and when the two triples also have *)
(* the same subject and object and both writes committed, the store holds  *)
(* one edge, with the qualifiers of the first triple.                      *)
(***************************************************************************)
\* c and d are the same letter or digit but for the case.
SameLetter(c, d) ==
    \/ c = d
    \/ {c, d} \in {{"a", "A"}, {"b", "B"}, {"x", "X"}}

DifferOnlyInCaseOrPunctuation(r1, r2) ==
    /\ Len(r1) = Len(r2)
    /\ \A k \in 1..Len(r1) :
          IF r1[k] \in AlphaNum \/ r2[k] \in AlphaNum
          THEN r1[k] \in AlphaNum /\ r2[k] \in AlphaNum /\ SameLetter(r1[k], r2[k])
          ELSE TRUE

EquivalentRelationshipsOneEdge ==
    (/\ pc = "sessionClose"
     /\ Len(triples) = 2
     /\ Len(outcomes) = 2
     /\ DifferOnlyInCaseOrPunctuation(triples[1].f["relationship"].v,
                                      triples[2].f["relationship"].v)) =>
        /\ Cardinality(DerivedRelTypes) = 1
        /\ (/\ outcomes = <<"committed", "committed">>
            /\ triples[1].f["subject"] = triples[2].f["subject"]
            /\ triples[1].f["object"] = triples[2].f["object"]) =>
               /\ Len(edges) = 1
               /\ edges[1].subject_qualifier =
                     Coalesce(triples[1].f["subject_qualifier"], Null)
               /\ edges[1].object_qualifier =
                     Coalesce(triples[1].f["object_qualifier"], Null)
               /\ edges[1].statement_qualifier =
                     Coalesce(triples[1].f["statement_qualifier"], Null)

\* Both writes committed for two triples of one subject and object whose
\* relationships differ in the case of a letter and in a non-alphanumeric
\* character, and whose qualifiers differ.
CaseAndPunctuationVariantsWritten ==
    /\ pc = "sessionClose"
    /\ outcomes = <<"committed", "committed">>
    /\ Len(triples) = 2
    /\ triples[1].f["subject"] = triples[2].f["subject"]
    /\ triples[1].f["object"] = triples[2].f["object"]
    /\ triples[1].f["subject_qualifier"] # triples[2].f["subject_qualifier"]
    /\ LET r1 == triples[1].f["relationship"].v
           r2 == triples[2].f["relationship"].v
       IN  /\ DifferOnlyInCaseOrPunctuation(r1, r2)
           /\ \E k \in 1..Len(r1) : r1[k] \in AlphaNum /\ r1[k] # r2[k]
           /\ \E k \in 1..Len(r1) : r1[k] \notin AlphaNum /\ r1[k] # r2[k]
    /\ Len(edges) = 1

(***************************************************************************)
(* C24  One call, one model family.  When callModel has settled after the  *)
(* remote call resolved with a JSON body, the family by which the body was *)
(* decoded is the family of the model id the request was encoded for and   *)
(* sent with, whatever setModelId did in between.                          *)
(***************************************************************************)
DecodedWithEncodingFamily ==
    (/\ bedrock.pc = "settled"
     /\ bedrock.remote.how = "resolved"
     /\ bedrock.remote.envelope.parses) =>
        bedrock.decodedAs = Family(bedrock.sent.modelId)

====
